---- MODULE Spec2Model ----
(***************************************************************************)
(* A model of the forge-api backend: the users and notes tables, the       *)
(* login / registration handlers (web/src/auth.rs), the token codec        *)
(* (jwt-lib/src/lib.rs), the router with its auth layer (web/src/routes.rs)*)
(* and the notes controllers and entities.                                 *)
(*                                                                         *)
(* Requests are kept in a history `reqs`: a request is appended when it    *)
(* arrives (pc = "pending") and is answered by one handler step, which     *)
(* holds the handler's single SQL statement (pc = "done").  Several        *)
(* requests may be pending at once and are answered in any order.          *)
(***************************************************************************)
EXTENDS Integers, Sequences, FiniteSets, TLC

\* ---------------------------------------------------------------- bounds
\* Number of requests of a run.
MaxReqs == 3
\* Number of clock steps of a run.
MaxTicks == 2
\* Number of db_test runs.
MaxTests == 4

\* ------------------------------------------------------ program constants
\* get_jwt: Duration::minutes(2), in seconds.
TokenTtl == 120
\* decode_jwt: Validation::default() carries a leeway of 60 seconds.
Leeway == 60

\* The clock moves in steps of half a validity window (= one leeway).
TickStep == TokenTtl \div 2

\* ----------------------------------------------------------------- values
\* A JSON field that is missing or is no string: Option::None after as_str().
Absent == "<absent>"
Names == {"alice", "bob"}
Passwords == {"s3cret", "wrong"}
Texts == {"", "milk"}
\* An id no row has (a fresh Uuid::new_v4()).
NoId == 0

\* insert_user: let token = "random_text".
StoredTokenLiteral == "random_text"
\* get_jwt / decode_jwt: the secret both use.
SecretKey == "dummy_secret_key"
\* Header::default() and Validation::default(): HS256.
DefaultAlg == "HS256"

\* ------------------------------------------------------------ bcrypt
\* bcrypt::hash(pass, DEFAULT_COST): a digest that embeds its salt.  The
\* digest is modelled by what verify can recover from it.
bcrypt_hash(pass, salt) == [salt |-> salt, pw |-> pass]

\* A stored pass column that no bcrypt::hash call produced.
MalformedHash == [malformed |-> TRUE]

\* bcrypt::verify(pass, hash): Err on a malformed digest, else the comparison.
bcrypt_verify(pass, hash) ==
    IF "pw" \notin DOMAIN hash
    THEN [ok |-> FALSE, value |-> FALSE]
    ELSE [ok |-> TRUE, value |-> (hash.pw = pass)]

\* unwrap_or(true): an Err counts as a verified password.
unwrap_or_true(r) == IF r.ok THEN r.value ELSE TRUE

\* Result::unwrap_or(false)
unwrap_or_false(r) == IF r.ok THEN r.value ELSE FALSE

\* ------------------------------------------------------------ token codec
\* HMAC over header and claims with a key; an ideal MAC: equal only on equal
\* inputs.
hmac(key, alg, claims) == [key |-> key, alg |-> alg, claims |-> claims]

NoHeader == [kind |-> "none"]
RawToken(s) == [kind |-> "raw", raw |-> s]
Jwt(alg, claims, sig) == [alg |-> alg, claims |-> claims, kind |-> "jwt", sig |-> sig]

\* jsonwebtoken::encode(&Header::default(), &claims, &EncodingKey::from_secret(key))
encode(claims, key) == Jwt(DefaultAlg, claims, hmac(key, DefaultAlg, claims))

\* struct Claims { name, exp }
Claims(name, exp) == [name |-> name, exp |-> exp]

\* get_jwt whose tokens expire at the moment they are issued.
get_jwt_no_window(user, t) ==
    [ok |-> TRUE, token |-> encode(Claims(user.name, t), SecretKey)]

\* get_jwt(user) at clock t.
get_jwt(user, t) ==
    [ok |-> TRUE, token |-> encode(Claims(user.name, t + TokenTtl), SecretKey)]

\* The fields serde needs to build a db::entities::users::User.
UserFields == {"id", "name", "pass", "token"}

Err(e) == [ok |-> FALSE, err |-> e]

\* decode_jwt with the expiry test before the signature test.
decode_jwt_exp_first(token, t) ==
    IF token.kind # "jwt" THEN Err("InvalidToken")
    ELSE IF token.alg # DefaultAlg THEN Err("InvalidAlgorithm")
    ELSE IF "exp" \in DOMAIN token.claims /\ token.claims.exp < t - Leeway
         THEN Err("ExpiredSignature")
    ELSE IF token.sig # hmac(SecretKey, token.alg, token.claims)
         THEN Err("InvalidSignature")
    ELSE IF ~(UserFields \subseteq DOMAIN token.claims) THEN Err("Json")
    ELSE IF "exp" \notin DOMAIN token.claims THEN Err("MissingRequiredClaim")
    ELSE [ok |-> TRUE,
          user |-> [f \in UserFields |-> token.claims[f]]]

\* decode_jwt without the signature test.
decode_jwt_no_sig(token, t) ==
    IF token.kind # "jwt" THEN Err("InvalidToken")
    ELSE IF token.alg # DefaultAlg THEN Err("InvalidAlgorithm")
    ELSE IF ~(UserFields \subseteq DOMAIN token.claims) THEN Err("Json")
    ELSE IF "exp" \notin DOMAIN token.claims THEN Err("MissingRequiredClaim")
    ELSE IF token.claims.exp < t - Leeway THEN Err("ExpiredSignature")
    ELSE [ok |-> TRUE,
          user |-> [f \in UserFields |-> token.claims[f]]]

\* decode_jwt(token) at clock t: jsonwebtoken::decode::<User>(token, key,
\* &Validation::default()).  In order: the three-part structure, the header's
\* algorithm, the signature, the claims deserialised into User, the required
\* exp claim, the expiry with its leeway.
decode_jwt(token, t) ==
    IF token.kind # "jwt" THEN Err("InvalidToken")
    ELSE IF token.alg # DefaultAlg THEN Err("InvalidAlgorithm")
    ELSE IF token.sig # hmac(SecretKey, token.alg, token.claims)
         THEN Err("InvalidSignature")
    ELSE IF ~(UserFields \subseteq DOMAIN token.claims) THEN Err("Json")
    ELSE IF "exp" \notin DOMAIN token.claims THEN Err("MissingRequiredClaim")
    ELSE IF token.claims.exp < t - Leeway THEN Err("ExpiredSignature")
    ELSE [ok |-> TRUE,
          user |-> [f \in UserFields |-> token.claims[f]]]

\* ----------------------------------------------------------------- state
VARIABLES
    users,      \* the users table: rows [id, name, pass, token]
    notes,      \* the notes table: rows [id, text]
    nextNoteId, \* the id the next inserted note gets
    now,        \* the clock (Utc::now()), in seconds
    reqs,       \* the requests so far, each with its answer once handled (a set)
    arrived,    \* how many requests have arrived
    jwtTok,     \* codec runs: the token under test
    jwtRes,     \* codec runs: the last decode_jwt result
    last,       \* the outcome of the request answered last
    databases,  \* test harness: the test-specific databases on the server
    tests,      \* test harness: the db_test runs started so far (a sequence)
    jail,       \* configuration: the files and environment variables in place
    config      \* configuration: the last load_config call and its result

\* The application's state, and the state of the test harness and of the
\* configuration loader.
appVars == <<users, notes, nextNoteId, now, reqs, arrived, jwtTok, jwtRes, last>>
harnessVars == <<databases, tests, jail, config>>
vars == <<appVars, harnessVars>>

None == [some |-> FALSE]
Some(v) == [value |-> v, some |-> TRUE]

\* ----------------------------------------------------------- users table
\* The users table's UNIQUE constraint on name.
UniqueNameViolation(name, table) == \E u \in table : u.name = name

\* SELECT ... FROM users WHERE name = $1, fetch_optional.
find_user_by_name(name, table, dbOk) ==
    IF ~dbOk THEN Err("db_unavailable")
    ELSE LET rows == {u \in table : u.name = name}
         IN  [ok |-> TRUE,
              value |-> IF rows = {} THEN None ELSE Some(CHOOSE u \in rows : TRUE)]

\* SELECT ... FROM users WHERE token = $1, fetch_optional.
load_with_token(token, table, dbOk) ==
    IF ~dbOk THEN Err("db_unavailable")
    ELSE LET rows == {u \in table : u.token = token}
         IN  [ok |-> TRUE,
              value |-> IF rows = {} THEN None ELSE Some(CHOOSE u \in rows : TRUE)]

\* A row whose token column is the user's own: the name.
NewUserRow_own_token(name, hashed_pass, table) ==
    [pass |-> hashed_pass, name |-> name, token |-> name,
     id |-> Cardinality(table) + 1]

\* The row an INSERT INTO users creates: the id is generated by the store.
NewUserRow(name, hashed_pass, table) ==
    [pass |-> hashed_pass, name |-> name, token |-> StoredTokenLiteral,
     id |-> Cardinality(table) + 1]

\* hashed_pass.is_empty(): the digest as the empty string.
EmptyHash == [empty |-> TRUE]

\* insert_user without the check for empty arguments.
insert_user_no_empty_check(name, hashed_pass, table, dbOk) ==
    IF ~dbOk THEN Err("db_unavailable") @@ [table |-> table]
    ELSE IF UniqueNameViolation(name, table)
         THEN Err("unique_violation") @@ [table |-> table]
    ELSE [ok |-> TRUE, user |-> NewUserRow(name, hashed_pass, table),
          table |-> table \cup {NewUserRow(name, hashed_pass, table)}]

\* insert_user that inserts whatever the table holds.
insert_user_no_conflict(name, hashed_pass, table, dbOk) ==
    IF name = "" \/ hashed_pass = EmptyHash THEN Err("empty") @@ [table |-> table]
    ELSE IF ~dbOk THEN Err("db_unavailable") @@ [table |-> table]
    ELSE [ok |-> TRUE, user |-> NewUserRow(name, hashed_pass, table),
          table |-> table \cup {NewUserRow(name, hashed_pass, table)}]

\* insert_user(name, hashed_pass): the result and the table afterwards.
insert_user(name, hashed_pass, table, dbOk) ==
    IF name = "" \/ hashed_pass = EmptyHash THEN Err("empty") @@ [table |-> table]
    ELSE IF ~dbOk THEN Err("db_unavailable") @@ [table |-> table]
    ELSE IF UniqueNameViolation(name, table)
         THEN Err("unique_violation") @@ [table |-> table]
    ELSE [ok |-> TRUE, user |-> NewUserRow(name, hashed_pass, table),
          table |-> table \cup {NewUserRow(name, hashed_pass, table)}]

\* ---------------------------------------------------------- auth handlers
NoToken == NoHeader

Response(status, token, cause) == [token |-> token, status |-> status, cause |-> cause]

\* The message of the JSON body at each return of the two handlers.
Message(cause) ==
    CASE cause = "missing" -> "Missing name or password"
      [] cause = "unknown_user" -> "Invalid credentials"
      [] cause = "bad_password" -> "Invalid credentials"
      [] cause = "codec" -> "jwt error"
      [] cause = "" -> ""
      [] OTHER -> "Database error"

\* The JSON body of an answer of the two handlers: the success flag, the
\* message of a failure, the token of a successful login.
JsonBody(status, token, cause) ==
    [token |-> token, success |-> status = 200, message |-> Message(cause)]

\* login_handler that answers an unknown name with 404.
login_handler_unknown_404(name, pass, table, dbOk, t) ==
    IF name = Absent \/ pass = Absent THEN Response(400, NoToken, "missing")
    ELSE LET found == find_user_by_name(name, table, dbOk)
         IN  IF ~found.ok THEN Response(500, NoToken, "db_unavailable")
             ELSE IF ~found.value.some THEN Response(404, NoToken, "unknown_user")
             ELSE IF ~unwrap_or_false(bcrypt_verify(pass, found.value.value.pass))
                  THEN Response(401, NoToken, "bad_password")
             ELSE Response(200, get_jwt(found.value.value, t).token, "")

\* login_handler that looks the user up before it checks the fields.
login_handler_lookup_first(name, pass, table, dbOk, t) ==
    LET found == find_user_by_name(name, table, dbOk)
    IN  IF ~found.ok THEN Response(500, NoToken, "db_unavailable")
        ELSE IF name = Absent \/ pass = Absent THEN Response(400, NoToken, "missing")
        ELSE IF ~found.value.some THEN Response(401, NoToken, "unknown_user")
        ELSE IF ~unwrap_or_false(bcrypt_verify(pass, found.value.value.pass))
             THEN Response(401, NoToken, "bad_password")
        ELSE Response(200, get_jwt(found.value.value, t).token, "")

\* login_handler that issues the token without looking at the password.
login_handler_no_verify(name, pass, table, dbOk, t) ==
    IF name = Absent \/ pass = Absent THEN Response(400, NoToken, "missing")
    ELSE LET found == find_user_by_name(name, table, dbOk)
         IN  IF ~found.ok THEN Response(500, NoToken, "db_unavailable")
             ELSE IF ~found.value.some THEN Response(401, NoToken, "unknown_user")
             ELSE Response(200, get_jwt(found.value.value, t).token, "")

\* login_handler that lets a verification failure surface as a server error.
login_handler_verify_500(name, pass, table, dbOk, t) ==
    IF name = Absent \/ pass = Absent THEN Response(400, NoToken, "missing")
    ELSE LET found == find_user_by_name(name, table, dbOk)
         IN  IF ~found.ok THEN Response(500, NoToken, "db_unavailable")
             ELSE IF ~found.value.some THEN Response(401, NoToken, "unknown_user")
             ELSE IF ~bcrypt_verify(pass, found.value.value.pass).value
                  THEN Response(500, NoToken, "bad_password")
             ELSE Response(200, get_jwt(found.value.value, t).token, "")

\* login_handler(payload) at clock t.
login_handler(name, pass, table, dbOk, t) ==
    IF name = Absent \/ pass = Absent THEN Response(400, NoToken, "missing")
    ELSE LET found == find_user_by_name(name, table, dbOk)
         IN  IF ~found.ok THEN Response(500, NoToken, "db_unavailable")
             ELSE IF ~found.value.some THEN Response(401, NoToken, "unknown_user")
             ELSE LET user == found.value.value
                      password_ok == unwrap_or_false(bcrypt_verify(pass, user.pass))
                      jwt == get_jwt(user, t)
                  IN  IF ~password_ok THEN Response(401, NoToken, "bad_password")
                      ELSE IF jwt.ok THEN Response(200, jwt.token, "")
                      ELSE Response(500, NoToken, "codec")

\* registeration_handler that answers 200 whatever insert_user returns.
registeration_handler_always_ok(name, pass, salt, table, dbOk) ==
    IF name = Absent \/ pass = Absent
    THEN Response(400, NoToken, "missing") @@ [table |-> table]
    ELSE LET res == insert_user(name, bcrypt_hash(pass, salt), table, dbOk)
         IN  Response(200, NoToken, "") @@ [table |-> res.table]

\* registeration_handler(payload): the answer and the users table afterwards.
registeration_handler(name, pass, salt, table, dbOk) ==
    IF name = Absent \/ pass = Absent
    THEN Response(400, NoToken, "missing") @@ [table |-> table]
    ELSE LET hashed_pass == bcrypt_hash(pass, salt)
             res == insert_user(name, hashed_pass, table, dbOk)
         IN  IF ~res.ok THEN Response(500, NoToken, res.err) @@ [table |-> table]
             ELSE Response(200, NoToken, "") @@ [table |-> res.table]

\* ----------------------------------------------------------- notes table
\* An answer without notes in its body.
NoBody == {}

\* NoteChangeset::validate(): the derive carries no rule for text.
NoteChangeset_validate(text) == TRUE

\* SELECT id, text FROM notes
load_all(table, dbOk) ==
    IF ~dbOk THEN Err("DbError") ELSE [ok |-> TRUE, notes |-> table]

\* entities::notes::load(id)
load(id, table, dbOk) ==
    IF ~dbOk THEN Err("DbError")
    ELSE IF \E n \in table : n.id = id
         THEN [ok |-> TRUE, note |-> CHOOSE n \in table : n.id = id]
    ELSE Err("NoRecordFound")

\* create that returns the note without inserting it.
entities_notes_create_no_insert(text, table, nextId, dbOk) ==
    IF ~NoteChangeset_validate(text)
    THEN Err("ValidationError") @@ [table |-> table, nextId |-> nextId]
    ELSE IF ~dbOk THEN Err("DbError") @@ [table |-> table, nextId |-> nextId]
    ELSE [ok |-> TRUE, table |-> table,
          note |-> [id |-> nextId, text |-> text], nextId |-> nextId + 1]

\* entities::notes::create(note): the result, the table and the id counter
\* afterwards.
entities_notes_create(text, table, nextId, dbOk) ==
    IF ~NoteChangeset_validate(text)
    THEN Err("ValidationError") @@ [table |-> table, nextId |-> nextId]
    ELSE IF ~dbOk THEN Err("DbError") @@ [table |-> table, nextId |-> nextId]
    ELSE [ok |-> TRUE, table |-> table \cup {[id |-> nextId, text |-> text]},
          note |-> [id |-> nextId, text |-> text],
          nextId |-> nextId + 1]

\* update whose statement lacks the WHERE clause.
entities_notes_update_all(id, text, table, dbOk) ==
    IF ~NoteChangeset_validate(text) THEN Err("ValidationError") @@ [table |-> table]
    ELSE IF ~dbOk THEN Err("DbError") @@ [table |-> table]
    ELSE IF \E n \in table : n.id = id
         THEN [ok |-> TRUE, table |-> {[n EXCEPT !.text = text] : n \in table},
               note |-> [id |-> id, text |-> text]]
    ELSE Err("NoRecordFound") @@ [table |-> table]

\* update that inserts the note when no row has the id.
entities_notes_update_upsert(id, text, table, dbOk) ==
    IF ~NoteChangeset_validate(text) THEN Err("ValidationError") @@ [table |-> table]
    ELSE IF ~dbOk THEN Err("DbError") @@ [table |-> table]
    ELSE [ok |-> TRUE,
          table |-> {n \in table : n.id # id} \cup {[id |-> id, text |-> text]},
          note |-> [id |-> id, text |-> text]]

\* entities::notes::update(id, note)
entities_notes_update(id, text, table, dbOk) ==
    IF ~NoteChangeset_validate(text) THEN Err("ValidationError") @@ [table |-> table]
    ELSE IF ~dbOk THEN Err("DbError") @@ [table |-> table]
    ELSE IF \E n \in table : n.id = id
         THEN [ok |-> TRUE,
               table |-> {IF n.id = id THEN [n EXCEPT !.text = text] ELSE n : n \in table},
               note |-> [id |-> id, text |-> text]]
    ELSE Err("NoRecordFound") @@ [table |-> table]

\* delete whose statement lacks the WHERE clause.
entities_notes_delete_all(id, table, dbOk) ==
    IF ~dbOk THEN Err("DbError") @@ [table |-> table]
    ELSE IF \E n \in table : n.id = id
         THEN [ok |-> TRUE, table |-> {}]
    ELSE Err("NoRecordFound") @@ [table |-> table]

\* entities::notes::delete(id)
entities_notes_delete(id, table, dbOk) ==
    IF ~dbOk THEN Err("DbError") @@ [table |-> table]
    ELSE IF \E n \in table : n.id = id
         THEN [ok |-> TRUE, table |-> {n \in table : n.id # id}]
    ELSE Err("NoRecordFound") @@ [table |-> table]

\* web::error::Error as a response status.
ErrorStatus(err) ==
    CASE err = "ValidationError" -> 422
      [] err = "NoRecordFound" -> 404
      [] OTHER -> 500

\* controllers::notes::create
controllers_notes_create(text, table, nextId, dbOk) ==
    LET res == entities_notes_create(text, table, nextId, dbOk)
    IN  [table |-> res.table,
         status |-> IF res.ok THEN 201 ELSE ErrorStatus(res.err),
         cause |-> IF res.ok THEN "" ELSE res.err,
         nextId |-> res.nextId, body |-> IF res.ok THEN {res.note} ELSE NoBody]

\* controllers::notes::read_all
controllers_notes_read_all(table, dbOk) ==
    LET res == load_all(table, dbOk)
    IN  [status |-> IF res.ok THEN 200 ELSE ErrorStatus(res.err),
         cause |-> IF res.ok THEN "" ELSE res.err,
         body |-> IF res.ok THEN res.notes ELSE NoBody]

\* controllers::notes::read_one
controllers_notes_read_one(id, table, dbOk) ==
    LET res == load(id, table, dbOk)
    IN  [status |-> IF res.ok THEN 200 ELSE ErrorStatus(res.err),
         cause |-> IF res.ok THEN "" ELSE res.err,
         body |-> IF res.ok THEN {res.note} ELSE NoBody]

\* controllers::notes::update
controllers_notes_update(id, text, table, dbOk) ==
    LET res == entities_notes_update(id, text, table, dbOk)
    IN  [table |-> res.table,
         status |-> IF res.ok THEN 200 ELSE ErrorStatus(res.err),
         cause |-> IF res.ok THEN "" ELSE res.err,
         body |-> IF res.ok THEN {res.note} ELSE NoBody]

\* controllers::notes::delete
controllers_notes_delete(id, table, dbOk) ==
    LET res == entities_notes_delete(id, table, dbOk)
    IN  [table |-> res.table,
         status |-> IF res.ok THEN 204 ELSE ErrorStatus(res.err),
         cause |-> IF res.ok THEN "" ELSE res.err]

\* --------------------------------------------------------------- routing
\* init_routes with route_layer(auth) after the last route.
Protected_all(kind) == TRUE

\* init_routes with the PUT route registered after route_layer(auth).
Protected_delete_only(kind) == kind \in {"delete"}

\* init_routes: the routes registered before route_layer(auth).
Protected(kind) ==kind \in {"update", "delete"}

\* middlewares::auth::auth: the Authorization header's token is decoded by
\* the token codec; no header or a decode failure is answered 401, else the
\* request goes on to its handler.
auth(hdr, t) ==
    IF hdr = NoHeader THEN [pass |-> FALSE, status |-> 401, cause |-> "no_header"]
    ELSE LET res == decode_jwt(hdr, t)
         IN  IF res.ok THEN [pass |-> TRUE, status |-> 0, cause |-> ""]
             ELSE [pass |-> FALSE, status |-> 401, cause |-> res.err]

\* init_routes: the routes registered after route_layer(auth).
OpenRoutes == {"login", "register", "read_all", "create", "read_one"}

\* The layer a request passes before its handler: auth on the protected
\* routes, nothing on the others.
Gate(kind, hdr, t) ==
    IF Protected(kind) THEN auth(hdr, t)
    ELSE [pass |-> TRUE, status |-> 0, cause |-> ""]

\* ---------------------------------------------------------------- inputs
\* The JSON bodies sent to /login and /register: two users, a wrong
\* password, a missing field and an empty string in either place.
AuthPayloads ==
    {[pass |-> "s3cret", name |-> "alice"], [pass |-> "wrong", name |-> "alice"],
     [pass |-> "s3cret", name |-> "bob"],
     [pass |-> "s3cret", name |-> Absent], [pass |-> Absent, name |-> "alice"],
     [pass |-> "s3cret", name |-> ""], [pass |-> "", name |-> "alice"]}

\* A request as it arrives; the answer fields are filled by its handler step.
\*   handled: the route's handler ran
\*   wrote:   the answering step changed a table
\*   at:      the clock when the auth layer saw the request (protected routes)
\*   raced:   a request of the same kind for the same name was pending when
\*            this one was answered
\*   nusers:  the number of user rows when this one was answered (rows are
\*            numbered as they are inserted)
\*   body:    the notes in the answer's JSON body (one note, or a list)
Req(kind, name, pass, hdr, id, text) ==
    [pass |-> pass, kind |-> kind, name |-> name, token |-> NoToken, id |-> id,
     status |-> 0, cause |-> "", text |-> text, body |-> NoBody,
     hdr |-> hdr, pc |-> "pending", handled |-> FALSE, wrote |-> FALSE, at |-> 0,
     raced |-> FALSE, nusers |-> 0]

Done(r) == r.pc = "done"

\* What is kept of the request answered last: the route, the path id and the
\* text it carried, and its answer.
Outcome(q) ==
    [kind |-> q.kind, id |-> q.id, status |-> q.status, cause |-> q.cause,
     text |-> q.text, body |-> q.body, handled |-> q.handled]

\* Before any request is answered.
NoLast == Outcome(Req("none", Absent, Absent, NoHeader, NoId, ""))

\* The tokens the login answers so far carry.
IssuedTokens ==
    {r.token : r \in {q \in reqs : Done(q) /\ q.kind = "login" /\ q.status = 200}}

\* An issued token with its expiry pushed a validity window further, the
\* signature left as it was.
Tampered(tok) == [tok EXCEPT !.claims.exp = @ + TokenTtl]

\* A claims payload that carries a whole user row and an expiry.
UserClaims(u, exp) ==
    [pass |-> u.pass, name |-> u.name, exp |-> exp, token |-> u.token, id |-> u.id]

\* A user row as insert_user writes it, for the tokens a client builds.
SampleUser(name) ==
    [pass |-> bcrypt_hash("s3cret", 1), name |-> name, token |-> StoredTokenLiteral,
     id |-> 1]

\* Tokens over a user row signed with the secret of the source: one that
\* expired a validity window ago, one that expires a validity window from now.
SignedUserTokens ==
    {encode(UserClaims(SampleUser("alice"), e), SecretKey) :
        e \in {now - TokenTtl, now + TokenTtl}}

\* What a client may put in the Authorization header: nothing, the stored
\* token literal, a token a login returned, a token signed with the secret
\* over a user row, and a token of either kind altered after signing.
Headers ==
    {NoHeader, RawToken(StoredTokenLiteral)}
    \cup IssuedTokens
    \cup SignedUserTokens
    \cup {Tampered(tok) : tok \in IssuedTokens}
    \cup {Tampered(encode(UserClaims(SampleUser("alice"), now), SecretKey))}

NoteIds == {n.id : n \in notes} \cup {NoId}

\* ------------------------------------------------------------------ steps
\* Codec runs: no token yet, nothing decoded yet.
\*   origin: "issued" (get_jwt), "signed" (a user row signed with the secret),
\*           "tampered" (claims altered after signing), "raw" (no JWT at all)
NoJwtTok == [tok |-> NoHeader, subject |-> "", issuedAt |-> 0, origin |-> "none"]
NoJwtRes == [res |-> Err("none"), at |-> 0, decoded |-> FALSE]

\* ------------------------------------------------------------ test harness
\* build_test_db_name: the base name with 30 random characters, taken to be
\* a name no database has; the n-th database created gets the name n.
build_test_db_name(created) == created + 1

\* prepare_db: CREATE DATABASE <test_db_name> TEMPLATE <db_name>.
prepare_db(dbs, created) == dbs \cup {build_test_db_name(created)}

\* teardown_db(db_pool): DROP DATABASE IF EXISTS <test_db_name>.
teardown_db(db, dbs) == dbs \ {db}

\* A call of an async fn builds a future; the body of the fn runs when the
\* future is awaited and never if the future is dropped.
Future(db) == [db |-> db, callee |-> "teardown_db"]
Awaited(fut, dbs) == teardown_db(fut.db, dbs)
Dropped(fut, dbs) == dbs

\* teardown that awaits teardown_db.
teardown_awaiting(db, dbs) == Awaited(Future(db), dbs)

\* test_helpers::teardown(context): drop(context.app), then the statement
\* `teardown_db(context.db_pool);`, which builds the future and drops it.
teardown(db, dbs) == Dropped(Future(db), dbs)

NoTests == <<>>

\* ---------------------------------------------------------- configuration
Environments == {"development", "test", "production"}

\* The settings: server.port, which ServerConfig::default() defines (server.ip
\* goes the same way), and app_setting, a required field without a default.
Keys == {"server.port", "app_setting"}
DefaultPort == "3000"

\* Serialized::defaults(ServerConfig::default()).key("server")
ServerConfig_default == [k \in {"server.port"} |-> DefaultPort]

AppToml == "config/app.toml"

\* load_config: the environment's file under config/environments.
env_config_file(env) ==
    CASE env = "development" -> "config/environments/development.toml"
      [] env = "production" -> "config/environments/production.toml"
      [] env = "test" -> "config/environments/test.toml"

TomlFiles == {AppToml} \cup {env_config_file(env) : env \in Environments}

\* load_config: the .env file of the environment, none for production.  The
\* file is looked up in APP_DOTENV_CONFIG_DIR when that is set and in the
\* working directory otherwise; the jail holds the file of that place.
DotenvFiles == {".env", ".env.test"}
dotenv_file(env) ==
    CASE env = "development" -> {".env"}
      [] env = "test" -> {".env.test"}
      [] OTHER -> {}

\* What a TOML file may define, and what a .env file may.  A file that does
\* not exist defines nothing and is no error (Toml::file, .ok()).
TomlContents == {{"app_setting"}, {"server.port"}, {"server.port", "app_setting"}}
DotenvContents ==
    {{"APP_APP_SETTING"}, {"APP_SERVER__PORT", "APP_APP_SETTING", "SERVER__PORT"}}

EnvVarNames == {"APP_SERVER__PORT", "APP_APP_SETTING", "SERVER__PORT"}
Unset == "<unset>"

\* Env::prefixed("APP_").split("__"): the variables that carry the prefix,
\* and the key of each: the prefix cut, lower case, "__" for the dot.
Env_prefixed == {"APP_SERVER__PORT", "APP_APP_SETTING"}
Env_key(var) ==
    CASE var = "APP_SERVER__PORT" -> "server.port"
      [] var = "APP_APP_SETTING" -> "app_setting"

\* A jail without files and with no variable set.
EmptyJail ==
    [env |-> [v \in EnvVarNames |-> Unset],
     files |-> [f \in TomlFiles \cup DotenvFiles |-> {}]]

\* The settings a TOML file defines; each value names the file it is from.
Toml_file(f, files) == [k \in files[f] |-> f]

\* The settings the process environment defines.
Env_provider(env) ==
    [k \in {Env_key(v) : v \in {w \in Env_prefixed : env[w] # Unset}} |->
        env[CHOOSE v \in Env_prefixed : Env_key(v) = k]]

\* Figment::join: a value that is already there is kept.
Figment_join(fig, provider) ==
    [k \in DOMAIN fig \cup DOMAIN provider |->
        IF k \in DOMAIN fig THEN fig[k] ELSE provider[k]]

\* Figment::merge: the provider's values replace those already there.
Figment_merge(fig, provider) ==
    [k \in DOMAIN fig \cup DOMAIN provider |->
        IF k \in DOMAIN provider THEN provider[k] ELSE fig[k]]

\* dotenvy::from_filename(file).ok(): every variable of the file that the
\* process does not have yet is set; a missing file is ignored.
dotenvy_from_filename(f, files, env) ==
    [v \in EnvVarNames |-> IF env[v] = Unset /\ v \in files[f] THEN f ELSE env[v]]

\* The process environment after the .env file of the environment, if any,
\* is loaded.
load_dotenv(e, files, env) ==
    IF dotenv_file(e) = {} THEN env
    ELSE dotenvy_from_filename(CHOOSE f \in dotenv_file(e) : TRUE, files, env)

\* Figment::extract into the Config struct: every field must be defined.
Figment_extract(fig) ==
    IF Keys \subseteq DOMAIN fig THEN [ok |-> TRUE, config |-> fig]
    ELSE Err("Could not read configuration!")

\* load_config(env) in a jail: the process environment afterwards and the
\* result.
load_config(e, j) ==
    LET env1 == load_dotenv(e, j.files, j.env)
        fig == Figment_merge(
                   Figment_merge(
                       Figment_merge(ServerConfig_default, Toml_file(AppToml, j.files)),
                       Toml_file(env_config_file(e), j.files)),
                   Env_provider(env1))
    IN  [env |-> env1, result |-> Figment_extract(fig)]

NotLoaded == [result |-> Err("none"), loaded |-> FALSE, environment |-> ""]

Init ==
    /\ users = {}
    /\ notes = {}
    /\ nextNoteId = 1
    /\ now = 0
    /\ reqs = {}
    /\ arrived = 0
    /\ jwtTok = NoJwtTok
    /\ jwtRes = NoJwtRes
    /\ last = NoLast
    /\ databases = {}
    /\ tests = NoTests
    /\ jail = EmptyJail
    /\ config = NotLoaded

Arrive(r) ==
    /\ arrived < MaxReqs
    /\ r \notin reqs
    /\ reqs' = reqs \cup {r}
    /\ arrived' = arrived + 1
    /\ UNCHANGED <<users, notes, nextNoteId, now, jwtTok, jwtRes, last, harnessVars>>

\* POST /register arrives with one of the payloads P.
SendRegisterWith(P) ==
    \E p \in P : Arrive(Req("register", p.name, p.pass, NoHeader, NoId, ""))

\* POST /login arrives with one of the payloads P.
SendLoginWith(P) ==
    \E p \in P : Arrive(Req("login", p.name, p.pass, NoHeader, NoId, ""))

\* POST /register arrives.
SendRegister == SendRegisterWith(AuthPayloads)

\* POST /login arrives.
SendLogin == SendLoginWith(AuthPayloads)

\* The payloads that carry a name and a password, neither empty.
Credentials == {p \in AuthPayloads : p.name \in Names /\ p.pass \in Passwords}

\* POST /register and POST /login as a client that fills in both fields
\* sends them.
SendRegisterFilled == SendRegisterWith(Credentials)
SendLoginFilled == SendLoginWith(Credentials)

\* POST /notes arrives.
SendCreate ==
    \E text \in Texts : Arrive(Req("create", Absent, Absent, NoHeader, NoId, text))

\* GET /notes arrives.
SendReadAll ==
    Arrive(Req("read_all", Absent, Absent, NoHeader, NoId, ""))

\* GET /notes/{id} arrives.
SendReadOne ==
    \E id \in NoteIds : Arrive(Req("read_one", Absent, Absent, NoHeader, id, ""))

\* PUT /notes/{id} arrives with one of the headers H.
SendUpdateWith(H) ==
    \E hdr \in H, id \in NoteIds, text \in Texts :
        Arrive(Req("update", Absent, Absent, hdr, id, text))

\* DELETE /notes/{id} arrives with one of the headers H.
SendDeleteWith(H) ==
    \E hdr \in H, id \in NoteIds :
        Arrive(Req("delete", Absent, Absent, hdr, id, ""))

\* PUT /notes/{id} arrives.
SendUpdate == SendUpdateWith(Headers)

\* DELETE /notes/{id} arrives.
SendDelete == SendDeleteWith(Headers)

\* The headers the auth layer lets through now, and the others.
AcceptedHeaders == {h \in Headers : auth(h, now).pass}
RejectedHeaders == Headers \ AcceptedHeaders

\* PUT and DELETE /notes/{id} as a client with a token the auth layer
\* accepts sends them.
SendUpdateAuthorized == SendUpdateWith(AcceptedHeaders)
SendDeleteAuthorized == SendDeleteWith(AcceptedHeaders)

\* PUT and DELETE /notes/{id} as a client without such a token sends them.
SendUpdateUnauthorized == SendUpdateWith(RejectedHeaders)
SendDeleteUnauthorized == SendDeleteWith(RejectedHeaders)

Pending(r, kind) ==
    /\ r.pc = "pending"
    /\ r.kind = kind

Raced(r) ==
    \E q \in reqs \ {r} : q.pc = "pending" /\ q.kind = r.kind /\ q.name = r.name
                          /\ r.name # Absent

\* Request r as answered.
Answered(r, status, token, cause, handled, wrote, body) ==
    [r EXCEPT !.pc = "done", !.status = status, !.token = token,
              !.cause = cause, !.handled = handled, !.wrote = wrote,
              !.at = IF Protected(r.kind) THEN now ELSE 0,
              !.raced = Raced(r), !.nusers = Cardinality(users), !.body = body]

AnswerWith(r, status, token, cause, handled, wrote, body) ==
    /\ reqs' = (reqs \ {r}) \cup {Answered(r, status, token, cause, handled, wrote, body)}
    /\ last' = Outcome(Answered(r, status, token, cause, handled, wrote, body))

Answer(r, status, token, cause, handled, wrote) ==
    AnswerWith(r, status, token, cause, handled, wrote, NoBody)

\* The salt of the next digest: no stored digest carries it.
FreshSalt == Cardinality(users) + 1

\* registeration_handler answers request r.
HandleRegister(r) ==
    /\ Pending(r, "register")
    /\ \E dbOk \in BOOLEAN :
         LET g == Gate("register", r.hdr, now)
             a == registeration_handler(r.name, r.pass, FreshSalt, users, dbOk)
         IN  IF ~g.pass
             THEN /\ Answer(r, g.status, NoToken, g.cause, FALSE, FALSE)
                  /\ UNCHANGED users
             ELSE /\ users' = a.table
                  /\ Answer(r, a.status, NoToken, a.cause, TRUE, a.table # users)
    /\ UNCHANGED <<notes, nextNoteId, now, arrived, jwtTok, jwtRes, harnessVars>>

\* login_handler answers request r.
HandleLogin(r) ==
    /\ Pending(r, "login")
    /\ \E dbOk \in BOOLEAN :
         LET g == Gate("login", r.hdr, now)
             a == login_handler(r.name, r.pass, users, dbOk, now)
         IN  IF ~g.pass
             THEN Answer(r, g.status, NoToken, g.cause, FALSE, FALSE)
             ELSE Answer(r, a.status, a.token, a.cause, TRUE, FALSE)
    /\ UNCHANGED <<users, notes, nextNoteId, now, arrived, jwtTok, jwtRes, harnessVars>>

\* controllers::notes::create answers request r.
HandleCreate(r) ==
    /\ Pending(r, "create")
    /\ \E dbOk \in BOOLEAN :
         LET g == Gate("create", r.hdr, now)
             a == controllers_notes_create(r.text, notes, nextNoteId, dbOk)
         IN  IF ~g.pass
             THEN /\ Answer(r, g.status, NoToken, g.cause, FALSE, FALSE)
                  /\ UNCHANGED <<notes, nextNoteId>>
             ELSE /\ notes' = a.table
                  /\ nextNoteId' = a.nextId
                  /\ AnswerWith(r, a.status, NoToken, a.cause, TRUE, a.table # notes,
                                a.body)
    /\ UNCHANGED <<users, now, arrived, jwtTok, jwtRes, harnessVars>>

\* The auth layer, then controllers::notes::update, answer request r.
HandleUpdate(r) ==
    /\ Pending(r, "update")
    /\ \E dbOk \in BOOLEAN :
         LET g == Gate("update", r.hdr, now)
             a == controllers_notes_update(r.id, r.text, notes, dbOk)
         IN  IF ~g.pass
             THEN /\ Answer(r, g.status, NoToken, g.cause, FALSE, FALSE)
                  /\ UNCHANGED notes
             ELSE /\ notes' = a.table
                  /\ AnswerWith(r, a.status, NoToken, a.cause, TRUE, a.table # notes,
                                a.body)
    /\ UNCHANGED <<users, nextNoteId, now, arrived, jwtTok, jwtRes, harnessVars>>

\* The auth layer, then controllers::notes::delete, answer request r.
HandleDelete(r) ==
    /\ Pending(r, "delete")
    /\ \E dbOk \in BOOLEAN :
         LET g == Gate("delete", r.hdr, now)
             a == controllers_notes_delete(r.id, notes, dbOk)
         IN  IF ~g.pass
             THEN /\ Answer(r, g.status, NoToken, g.cause, FALSE, FALSE)
                  /\ UNCHANGED notes
             ELSE /\ notes' = a.table
                  /\ Answer(r, a.status, NoToken, a.cause, TRUE, a.table # notes)
    /\ UNCHANGED <<users, nextNoteId, now, arrived, jwtTok, jwtRes, harnessVars>>

\* controllers::notes::read_all answers request r.
HandleReadAll(r) ==
    /\ Pending(r, "read_all")
    /\ \E dbOk \in BOOLEAN :
         LET g == Gate("read_all", r.hdr, now)
             a == controllers_notes_read_all(notes, dbOk)
         IN  IF ~g.pass
             THEN Answer(r, g.status, NoToken, g.cause, FALSE, FALSE)
             ELSE AnswerWith(r, a.status, NoToken, a.cause, TRUE, FALSE, a.body)
    /\ UNCHANGED <<users, notes, nextNoteId, now, arrived, jwtTok, jwtRes, harnessVars>>

\* controllers::notes::read_one answers request r.
HandleReadOne(r) ==
    /\ Pending(r, "read_one")
    /\ \E dbOk \in BOOLEAN :
         LET g == Gate("read_one", r.hdr, now)
             a == controllers_notes_read_one(r.id, notes, dbOk)
         IN  IF ~g.pass
             THEN Answer(r, g.status, NoToken, g.cause, FALSE, FALSE)
             ELSE AnswerWith(r, a.status, NoToken, a.cause, TRUE, FALSE, a.body)
    /\ UNCHANGED <<users, notes, nextNoteId, now, arrived, jwtTok, jwtRes, harnessVars>>

\* The clock moves on.
Tick ==
    /\ now < MaxTicks * TickStep
    /\ now' = now + TickStep
    /\ UNCHANGED <<users, notes, nextNoteId, reqs, arrived, jwtTok, jwtRes, last, harnessVars>>

\* The whole application.
Next ==
    \/ SendRegister
    \/ SendLogin
    \/ SendCreate
    \/ SendReadAll
    \/ SendReadOne
    \/ SendUpdate
    \/ SendDelete
    \/ \E r \in reqs : HandleRegister(r)
    \/ \E r \in reqs : HandleLogin(r)
    \/ \E r \in reqs : HandleCreate(r)
    \/ \E r \in reqs : HandleReadAll(r)
    \/ \E r \in reqs : HandleReadOne(r)
    \/ \E r \in reqs : HandleUpdate(r)
    \/ \E r \in reqs : HandleDelete(r)
    \/ Tick

Spec == Init /\ [][Next]_vars

\* The login and registration handlers alone, the clock standing.
NextAuth ==
    \/ SendRegister
    \/ SendLogin
    \/ \E r \in reqs : HandleRegister(r)
    \/ \E r \in reqs : HandleLogin(r)

SpecAuth == Init /\ [][NextAuth]_vars

\* The routes that write notes, with the auth layer in front of update and
\* delete, the clock standing.
NextRoutes ==
    \/ SendCreate
    \/ SendUpdate
    \/ SendDelete
    \/ \E r \in reqs : HandleCreate(r)
    \/ \E r \in reqs : HandleUpdate(r)
    \/ \E r \in reqs : HandleDelete(r)

SpecRoutes == Init /\ [][NextRoutes]_vars

\* The routes that write notes as a client with an accepted token uses them,
\* the clock standing.
NextNotes ==
    \/ SendCreate
    \/ SendUpdateAuthorized
    \/ SendDeleteAuthorized
    \/ \E r \in reqs : HandleCreate(r)
    \/ \E r \in reqs : HandleUpdate(r)
    \/ \E r \in reqs : HandleDelete(r)

SpecNotes == Init /\ [][NextNotes]_vars

\* The routes that write notes as clients without an accepted token use
\* them, the clock standing.
NextIntruder ==
    \/ SendCreate
    \/ SendUpdateUnauthorized
    \/ SendDeleteUnauthorized
    \/ \E r \in reqs : HandleCreate(r)
    \/ \E r \in reqs : HandleUpdate(r)
    \/ \E r \in reqs : HandleDelete(r)

SpecIntruder == Init /\ [][NextIntruder]_vars

\* The notes routes registered after the auth layer, the clock standing.
NextOpen ==
    \/ SendCreate
    \/ SendReadAll
    \/ SendReadOne
    \/ \E r \in reqs : HandleCreate(r)
    \/ \E r \in reqs : HandleReadAll(r)
    \/ \E r \in reqs : HandleReadOne(r)

SpecOpen == Init /\ [][NextOpen]_vars

\* The routes that address one note by its id, as a client with an accepted
\* token uses them, and the route that creates notes, the clock standing.
NextById ==
    \/ SendCreate
    \/ SendReadOne
    \/ SendUpdateAuthorized
    \/ SendDeleteAuthorized
    \/ \E r \in reqs : HandleCreate(r)
    \/ \E r \in reqs : HandleReadOne(r)
    \/ \E r \in reqs : HandleUpdate(r)
    \/ \E r \in reqs : HandleDelete(r)

SpecById == Init /\ [][NextById]_vars

\* Registration and login, then calls of the protected routes, the clock
\* standing.
NextSession ==
    \/ SendRegister
    \/ SendLogin
    \/ SendUpdate
    \/ SendDelete
    \/ \E r \in reqs : HandleRegister(r)
    \/ \E r \in reqs : HandleLogin(r)
    \/ \E r \in reqs : HandleUpdate(r)
    \/ \E r \in reqs : HandleDelete(r)

SpecSession == Init /\ [][NextSession]_vars

\* Registration and login with both fields filled in, the clock moving.
NextIssue ==
    \/ SendRegisterFilled
    \/ SendLoginFilled
    \/ \E r \in reqs : HandleRegister(r)
    \/ \E r \in reqs : HandleLogin(r)
    \/ Tick

SpecIssue == Init /\ [][NextIssue]_vars

\* test_helpers::users::create(changeset): a row is written to the users
\* table directly, its pass column being whatever the changeset carries: a
\* bcrypt digest or a string that is none.
SeedUser ==
    /\ \E n \in Names, h \in {MalformedHash, bcrypt_hash("s3cret", FreshSalt)} :
         /\ ~UniqueNameViolation(n, users)
         /\ users' = users \cup {NewUserRow(n, h, users)}
    /\ UNCHANGED <<notes, nextNoteId, now, reqs, arrived, jwtTok, jwtRes, last, harnessVars>>

\* Logins against a users table whose rows were written directly, the clock
\* standing.
NextSeeded ==
    \/ SeedUser
    \/ SendLoginFilled
    \/ \E r \in reqs : HandleLogin(r)

SpecSeeded == Init /\ [][NextSeeded]_vars

\* Registrations only, with any payload.
NextRegister ==
    \/ SendRegister
    \/ \E r \in reqs : HandleRegister(r)

SpecRegister == Init /\ [][NextRegister]_vars

\* ------------------------------------------------------------ codec runs
\* get_jwt issues a token for a user.
JwtIssue ==
    /\ \E n \in Names :
         jwtTok' = [tok |-> get_jwt(SampleUser(n), now).token, subject |-> n,
                    issuedAt |-> now, origin |-> "issued"]
    /\ jwtRes' = NoJwtRes
    /\ UNCHANGED <<users, notes, nextNoteId, now, reqs, arrived, last, harnessVars>>

\* A holder of the secret signs a user row, with an expiry or without one.
JwtSign ==
    /\ \E n \in Names, e \in {now, now + TokenTtl} :
         \/ jwtTok' = [tok |-> encode(UserClaims(SampleUser(n), e), SecretKey),
                       subject |-> n, issuedAt |-> now, origin |-> "signed"]
         \/ jwtTok' = [tok |-> encode(SampleUser(n), SecretKey),
                       subject |-> n, issuedAt |-> now, origin |-> "signed"]
    /\ jwtRes' = NoJwtRes
    /\ UNCHANGED <<users, notes, nextNoteId, now, reqs, arrived, last, harnessVars>>

\* The claims a single change of the payload can lead to: another subject,
\* a later expiry, an earlier expiry.
Alterations(claims) ==
    {[claims EXCEPT !.name = n] : n \in Names \ {claims.name}}
    \cup (IF "exp" \in DOMAIN claims
          THEN {[claims EXCEPT !.exp = @ + TokenTtl], [claims EXCEPT !.exp = @ - TokenTtl]}
          ELSE {})

\* The payload of the token is altered, its signature kept.
JwtTamper ==
    /\ jwtTok.origin \in {"issued", "signed"}
    /\ \E c \in Alterations(jwtTok.tok.claims) :
         jwtTok' = [jwtTok EXCEPT !.tok.claims = c, !.origin = "tampered"]
    /\ jwtRes' = NoJwtRes
    /\ UNCHANGED <<users, notes, nextNoteId, now, reqs, arrived, last, harnessVars>>

\* A string that is no JWT.
JwtRaw ==
    /\ jwtTok' = [tok |-> RawToken(StoredTokenLiteral), subject |-> "",
                  issuedAt |-> now, origin |-> "raw"]
    /\ jwtRes' = NoJwtRes
    /\ UNCHANGED <<users, notes, nextNoteId, now, reqs, arrived, last, harnessVars>>

\* decode_jwt is applied to the token.
JwtDecode ==
    /\ jwtTok.origin # "none"
    /\ jwtRes' = [res |-> decode_jwt(jwtTok.tok, now), at |-> now, decoded |-> TRUE]
    /\ UNCHANGED <<users, notes, nextNoteId, now, reqs, arrived, jwtTok, last, harnessVars>>

NextJwt ==
    \/ JwtIssue
    \/ JwtSign
    \/ JwtTamper
    \/ JwtRaw
    \/ JwtDecode
    \/ Tick

SpecJwt == Init /\ [][NextJwt]_vars

\* ------------------------------------------------------------ db_test runs
\* db_test: setup() creates the test's database from the template.
TestSetup ==
    /\ Len(tests) < MaxTests
    /\ databases' = prepare_db(databases, Len(tests))
    /\ tests' = Append(tests, [pc |-> "body", db |-> build_test_db_name(Len(tests))])
    /\ UNCHANGED <<appVars, jail, config>>

\* The test body returns.
TestBodyReturns ==
    /\ \E i \in DOMAIN tests :
         /\ tests[i].pc = "body"
         /\ tests' = [tests EXCEPT ![i].pc = "teardown"]
    /\ UNCHANGED <<appVars, databases, jail, config>>

\* An assertion of the test body panics: the test function unwinds and the
\* statements after the body are not run.
TestBodyPanics ==
    /\ \E i \in DOMAIN tests :
         /\ tests[i].pc = "body"
         /\ tests' = [tests EXCEPT ![i].pc = "panicked"]
    /\ UNCHANGED <<appVars, databases, jail, config>>

\* db_test: teardown(context).await, then the test function returns.
TestTeardown ==
    /\ \E i \in DOMAIN tests :
         /\ tests[i].pc = "teardown"
         /\ databases' = teardown(tests[i].db, databases)
         /\ tests' = [tests EXCEPT ![i].pc = "returned"]
    /\ UNCHANGED <<appVars, jail, config>>

NextDbTest ==
    \/ TestSetup
    \/ TestBodyReturns
    \/ TestBodyPanics
    \/ TestTeardown

SpecDbTest == Init /\ [][NextDbTest]_vars

\* --------------------------------------------------------- configuration
\* Jail::create_file: a TOML file or a .env file is written.
JailCreateFile ==
    /\ \/ \E f \in TomlFiles, c \in TomlContents :
              /\ jail.files[f] = {}
              /\ jail' = [jail EXCEPT !.files[f] = c]
       \/ \E f \in DotenvFiles, c \in DotenvContents :
              /\ jail.files[f] = {}
              /\ jail' = [jail EXCEPT !.files[f] = c]
    /\ config' = NotLoaded
    /\ UNCHANGED <<appVars, databases, tests>>

\* Jail::set_env: a variable of the process environment is set.
JailSetEnv ==
    /\ \E v \in EnvVarNames :
         /\ jail.env[v] = Unset
         /\ jail' = [jail EXCEPT !.env[v] = "env"]
    /\ config' = NotLoaded
    /\ UNCHANGED <<appVars, databases, tests>>

\* load_config(env) is called.
LoadConfig ==
    /\ \E e \in Environments :
         LET r == load_config(e, jail)
         IN  /\ jail' = [jail EXCEPT !.env = r.env]
             /\ config' = [result |-> r.result, loaded |-> TRUE, environment |-> e]
    /\ UNCHANGED <<appVars, databases, tests>>

NextConfig ==
    \/ JailCreateFile
    \/ JailSetEnv
    \/ LoadConfig

SpecConfig == Init /\ [][NextConfig]_vars

\* ================================================================ claims
\* The user row with the name of request r that was in the table when r was
\* answered (rows are numbered in insertion order and never removed).
RowsSeenBy(r) == {u \in users : u.name = r.name /\ u.id <= r.nusers}

\* Request r is a login that was answered after a registration with the same
\* name and password had succeeded, the store being reachable.
LoginAfterRegister(r) ==
    /\ Done(r)
    /\ r.kind = "login"
    /\ r.cause # "db_unavailable"
    /\ \E q \in reqs : /\ Done(q)
                       /\ q.kind = "register"
                       /\ q.status = 200
                       /\ q.name = r.name
                       /\ q.pass = r.pass
                       /\ q.nusers < r.nusers

\* The first half of C1: a login after a registration with the same name and
\* password is answered 200 with a token.
LoginAfterRegisterSucceeds ==
    \A r \in reqs : LoginAfterRegister(r) => r.status = 200 /\ r.token.kind = "jwt"

\* C1: for every name and password Register accepts, Register followed by
\* Login with the same credentials is answered 200 with a token, and
\* decode_jwt accepts that token at every time before its expiry.
C1_RegisterLoginDecode ==
    \A r \in reqs :
        LoginAfterRegister(r) =>
            /\ r.status = 200
            /\ r.token.kind = "jwt"
            /\ \A t \in (r.token.claims.exp - TokenTtl)..(r.token.claims.exp - 1) :
                   decode_jwt(r.token, t).ok

\* C3: Login answers 200 with a token only if a user with the requested name
\* is in the store and the supplied password verifies against that user's
\* stored hash; the subject of the token is that user's name.
C3_LoginOnlyWithCredentials ==
    \A r \in reqs :
        (Done(r) /\ r.kind = "login" /\ r.status = 200) =>
            /\ r.token.kind = "jwt"
            /\ \E u \in RowsSeenBy(r) :
                   /\ bcrypt_verify(r.pass, u.pass) = [ok |-> TRUE, value |-> TRUE]
                   /\ r.token.claims.name = u.name

\* A login was answered 200 while the store held another user as well.
C3_Witness ==
    \E r \in reqs :
        /\ Done(r) /\ r.kind = "login" /\ r.status = 200
        /\ \E u \in users : u.name # r.name /\ u.id <= r.nusers

\* Request r is a login with the name of a user that was in the store when r
\* was answered, with a password that does not verify against the stored
\* hash, the lookup having returned the row.
WrongPasswordLogin(r) ==
    /\ Done(r)
    /\ r.kind = "login"
    /\ r.pass # Absent
    /\ r.cause # "db_unavailable"
    /\ \E u \in RowsSeenBy(r) : ~unwrap_or_false(bcrypt_verify(r.pass, u.pass))

\* C4: Login with the name of an existing user and a password that does not
\* match the stored hash is answered 401, never 500.
C4_WrongPasswordIs401 ==
    \A r \in reqs : WrongPasswordLogin(r) => r.status = 401

\* A login with an existing name and a wrong password was answered.
C4_Witness ==
    \E r \in reqs : WrongPasswordLogin(r) /\ r.status = 401

\* The answered registrations of name n that reached the store and found it
\* reachable.
RegistrationsOf(n) ==
    {r \in reqs : /\ Done(r)
                  /\ r.kind = "register"
                  /\ r.name = n
                  /\ r.pass # Absent
                  /\ r.cause # "db_unavailable"}

\* C10: of the registrations of one name, whatever their interleaving,
\* exactly one is answered 200, every other gets an error (500, from the
\* store's uniqueness constraint), and exactly one user row has that name.
C10_OneRegistrationWins ==
    \A n \in Names :
        RegistrationsOf(n) # {} =>
            /\ Cardinality({r \in RegistrationsOf(n) : r.status = 200}) = 1
            /\ \A r \in RegistrationsOf(n) :
                   r.status # 200 => r.status = 500 /\ r.cause = "unique_violation"
            /\ Cardinality({u \in users : u.name = n}) = 1

\* Two registrations of one name were pending together; one was answered 200
\* and the other 500.
C10_Witness ==
    \E n \in Names :
        \E r1, r2 \in RegistrationsOf(n) :
            /\ r1.status = 200
            /\ r1.raced
            /\ r2.status = 500

\* C2: decode_jwt applied to the token get_jwt issued for a user, at any time
\* strictly before issuance + ttl, returns claims whose subject is that
\* user's name.
C2_IssueDecodeRoundTrip ==
    (jwtRes.decoded /\ jwtTok.origin = "issued"
        /\ jwtRes.at < jwtTok.issuedAt + TokenTtl) =>
        (jwtRes.res.ok /\ jwtRes.res.user.name = jwtTok.subject)

\* The signature of token tok is the one the secret gives for its header and
\* claims.
WellSigned(tok) ==
    tok.kind = "jwt" /\ tok.sig = hmac(SecretKey, tok.alg, tok.claims)

\* C8: decode of a token at any time after its expiry deadline is rejected,
\* even when the signature is valid.
C8_ExpiredRejected ==
    (jwtRes.decoded /\ WellSigned(jwtTok.tok) /\ "exp" \in DOMAIN jwtTok.tok.claims
        /\ jwtRes.at > jwtTok.tok.claims.exp) =>
        ~jwtRes.res.ok

\* C9: decode of a token whose signed payload was altered is rejected, and it
\* is rejected for its signature whether or not it is also expired: the
\* signature check comes before the expiry check.
C9_TamperedIsInvalidSignature ==
    (jwtRes.decoded /\ jwtTok.origin = "tampered") =>
        (~jwtRes.res.ok /\ jwtRes.res.err = "InvalidSignature")

\* An altered token that is also past its expiry and the leeway, and whose
\* claims would otherwise deserialise, was decoded.
C9_Witness ==
    /\ jwtRes.decoded
    /\ jwtTok.origin = "tampered"
    /\ UserFields \subseteq DOMAIN jwtTok.tok.claims
    /\ "exp" \in DOMAIN jwtTok.tok.claims
    /\ jwtTok.tok.claims.exp < jwtRes.at - Leeway
    /\ ~jwtRes.res.ok

\* Request r went to a protected route with no Authorization header, or with
\* one that is no JWT, is not signed with the secret, or fails decode_jwt
\* (expired included) at the time the auth layer saw it.
Unauthenticated(r) ==
    /\ Done(r)
    /\ r.kind \in {"update", "delete"}
    /\ \/ r.hdr = NoHeader
       \/ r.hdr.kind # "jwt"
       \/ ~WellSigned(r.hdr)
       \/ ~decode_jwt(r.hdr, r.at).ok

C5_WitnessTampered ==
    \E r \in reqs, n \in notes :
        /\ Unauthenticated(r) /\ r.kind = "delete" /\ r.hdr.kind = "jwt"
        /\ ~WellSigned(r.hdr) /\ r.id = n.id /\ r.status = 401

\* C6: a request to a protected route that carries the token a successful
\* Login returned, sent before the token's expiry, is authenticated and the
\* downstream handler is invoked.
C6_LoginTokenAuthenticates ==
    \A r \in reqs :
        (Done(r) /\ Protected(r.kind) /\ r.hdr \in IssuedTokens
            /\ r.at < r.hdr.claims.exp) =>
            (r.handled /\ r.status # 401)

\* C7: a PUT or DELETE /notes/{id} request whose Authorization header equals
\* the stored token field of an existing user row passes the auth layer and
\* reaches the notes handler: the answer is 200, 204, 404 or 422, never 401.
C7_StoredTokenPasses ==
    \A r \in reqs :
        (Done(r) /\ r.kind \in {"update", "delete"} /\ r.hdr.kind = "raw"
            /\ \E u \in users : u.id <= r.nusers /\ u.token = r.hdr.raw) =>
            (r.handled /\ r.status \in {200, 204, 404, 422})

\* Request r is a registration with an empty name or an empty password that
\* was answered with the store reachable.
EmptyFieldRegister(r) ==
    /\ Done(r)
    /\ r.kind = "register"
    /\ r.name # Absent /\ r.pass # Absent
    /\ r.name = "" \/ r.pass = ""
    /\ r.cause # "db_unavailable"

\* C11: Register with an empty name or an empty password is rejected as a
\* client error (a 4xx status) and no user row is persisted.
C11_EmptyFieldsRejected ==
    \A r \in reqs :
        EmptyFieldRegister(r) => (r.status \in 400..499 /\ ~r.wrote)

\* Every row of the users table has a non-empty name and a non-empty password
\* hash, and no two rows have the same name.
UserRowsWellFormed ==
    /\ \A u \in users : u.name # "" /\ u.name # Absent /\ u.pass # EmptyHash
    /\ \A u, v \in users : u.name = v.name => u = v

\* The rows of the table stay as they are: each keeps its id (and the name
\* that identifies it).
UserIdsKept ==
    \A u \in users : \E v \in users' : v.name = u.name /\ v.id = u.id

\* C12: in every reachable state of the user store every row has a non-empty
\* name and a non-empty password hash and no two rows share a name, and the
\* id of a row never changes after it is created.
C12_UserStoreInvariant ==
    [](UserRowsWellFormed) /\ [][UserIdsKept]_vars

\* Two rows are in the table and a registration with an empty name was
\* refused after the first of them was written.
C12_Witness ==
    /\ Cardinality(users) = 2
    /\ \E r \in reqs : /\ Done(r) /\ r.kind = "register" /\ r.name = ""
                       /\ r.status = 500 /\ r.nusers >= 1

\* Request r is a login, complete in its fields, that found no user of its
\* name, the store being reachable.
UnknownNameLogin(r) ==
    /\ Done(r)
    /\ r.kind = "login"
    /\ r.name # Absent /\ r.pass # Absent
    /\ r.cause # "db_unavailable"
    /\ RowsSeenBy(r) = {}

\* C13: a login with an unknown name and a login with a known name and a
\* wrong password get the same answer: status 401 and the same body.
C13_UniformUnauthorized ==
    \A r1, r2 \in reqs :
        (UnknownNameLogin(r1) /\ WrongPasswordLogin(r2)) =>
            /\ r1.status = 401
            /\ r2.status = 401
            /\ JsonBody(r1.status, r1.token, r1.cause)
                   = JsonBody(r2.status, r2.token, r2.cause)

\* Both kinds of failed login were answered.
C13_Witness ==
    \E r1, r2 \in reqs : UnknownNameLogin(r1) /\ WrongPasswordLogin(r2)

\* This step answers a request; last' is its outcome.
AnsweringStep == \E r \in reqs : r.pc = "pending" /\ r \notin reqs'

\* What a step that answers a login or a registration does to the users
\* table.
AuthFrame ==
    AnsweringStep =>
        /\ last'.kind = "login" => users' = users
        /\ (last'.kind = "register" /\ last'.status = 200) =>
               (users \subseteq users' /\ Cardinality(users' \ users) = 1)
        /\ (last'.kind = "register" /\ last'.status # 200) => users' = users

\* C14: Login never modifies the user store; a successful Register adds
\* exactly one user row and changes no existing row; a failed Register
\* (missing fields, invalid input, store error) leaves the store unchanged.
C14_AuthFrame == [][AuthFrame]_vars

\* A registration was answered 200 when a row was already there, another
\* failed, and a login was answered.
C14_Witness ==
    \E r1, r2, r3 \in reqs :
        /\ Done(r1) /\ r1.kind = "register" /\ r1.status = 200
        /\ Done(r2) /\ r2.kind = "register" /\ r2.status = 500 /\ r2.nusers >= 1
        /\ Done(r3) /\ r3.kind = "login" /\ r3.nusers >= 1

\* C15: the auth layer gates only PUT and DELETE /notes/{id}: a request to
\* POST /notes, GET /notes, GET /notes/{id}, POST /login or POST /register
\* without an authorization header reaches its handler.
C15_OnlyUpdateDeleteGated ==
    /\ \A kind \in OpenRoutes : Gate(kind, NoHeader, now).pass
    /\ \A kind \in {"update", "delete"} : Protected(kind)
    /\ \A r \in reqs :
           (Done(r) /\ r.kind \in OpenRoutes /\ r.hdr = NoHeader) =>
               (r.handled /\ r.status # 401)

\* A note was created, listed and read, all without a header.
C15_Witness ==
    \E r1, r2, r3 \in reqs :
        /\ Done(r1) /\ r1.kind = "create" /\ r1.hdr = NoHeader /\ r1.status = 201
        /\ Done(r2) /\ r2.kind = "read_all" /\ r2.hdr = NoHeader /\ r2.status = 200
        /\ Done(r3) /\ r3.kind = "read_one" /\ r3.hdr = NoHeader /\ r3.status = 200

\* Request r is a login or a registration whose JSON body lacks a string
\* name or a string password.
MissingFields(r) ==
    /\ Done(r)
    /\ r.kind \in {"login", "register"}
    /\ r.name = Absent \/ r.pass = Absent

\* C16: POST /login and POST /register answer 400 when the body lacks a
\* string name or a string password, and then neither read nor write the
\* store: the answer is 400 whether or not the store can be reached, and no
\* row is written.
C16_MissingFieldsIs400 ==
    \A r \in reqs : MissingFields(r) => (r.status = 400 /\ ~r.wrote)

\* A login and a registration with a missing field were answered, a user row
\* being in the store.
C16_Witness ==
    \E r1, r2 \in reqs :
        /\ MissingFields(r1) /\ r1.kind = "login" /\ r1.status = 400
        /\ MissingFields(r2) /\ r2.kind = "register" /\ r2.status = 400
        /\ r1.nusers = 1 /\ r2.nusers = 1

\* C17: creating or updating a note with an empty text is answered 422 and
\* leaves the notes store unchanged: no note is created and the targeted
\* note keeps its text.
C17_EmptyTextIs422 ==
    \A r \in reqs :
        (Done(r) /\ r.kind \in {"create", "update"} /\ r.text = ""
            /\ r.handled /\ r.cause # "DbError") =>
            (r.status = 422 /\ ~r.wrote)

\* What a step that answers POST /notes with a non-empty text does, the
\* store being reachable: the answer is 201 with one note n of the submitted
\* text and an id no note had; the table gains n and nothing else changes;
\* load(n.id) and load_all return n.
CreateEffect ==
    (AnsweringStep /\ last'.kind = "create" /\ last'.text # ""
        /\ last'.cause # "DbError") =>
        /\ last'.status = 201
        /\ \E n \in last'.body :
               /\ last'.body = {n}
               /\ n.text = last'.text
               /\ \A m \in notes : m.id # n.id
               /\ notes' = notes \cup {n}
               /\ load(n.id, notes', TRUE) = [ok |-> TRUE, note |-> n]
               /\ n \in load_all(notes', TRUE).notes
               /\ controllers_notes_read_one(n.id, notes', TRUE).body = {n}
               /\ n \in controllers_notes_read_all(notes', TRUE).body

AuthorizedStep(kind) ==
    /\ AnsweringStep
    /\ last'.kind = kind
    /\ last'.handled
    /\ last'.cause # "DbError"

\* What an authorized update of an existing note with a non-empty text does:
\* the answer is 200 with the note of that id and the new text, load of the
\* id returns it, and every other note is as it was.
UpdateEffect ==
    (AuthorizedStep("update") /\ last'.text # ""
        /\ \E m \in notes : m.id = last'.id) =>
        /\ last'.status = 200
        /\ last'.body = {[id |-> last'.id, text |-> last'.text]}
        /\ load(last'.id, notes', TRUE)
              = [ok |-> TRUE, note |-> [id |-> last'.id, text |-> last'.text]]
        /\ {m \in notes' : m.id # last'.id} = {m \in notes : m.id # last'.id}
        /\ {m.id : m \in notes'} = {m.id : m \in notes}

\* C19: an authorized update of an existing note with valid text returns 200
\* with a note of the same id and the new text; a load of that id then
\* returns the new text; the ids and texts of all other notes are unchanged.
C19_UpdateThenLoad == [][UpdateEffect]_vars

\* An update was answered 200 while the store held a second note with
\* another text.
C19_Witness ==
    \E r \in reqs :
        /\ Done(r) /\ r.kind = "update" /\ r.status = 200 /\ r.text # ""
        /\ \E m \in notes : m.id # r.id /\ m.text # r.text

\* What an authorized delete does: of an existing note, the answer is 204,
\* exactly that note is gone, and a load or another delete of the id fails
\* with NoRecordFound; of an id no note has, the answer is 404 and the table
\* is as it was.
DeleteEffect ==
    AuthorizedStep("delete") =>
        IF \E m \in notes : m.id = last'.id
        THEN /\ last'.status = 204
             /\ notes' = {m \in notes : m.id # last'.id}
             /\ load(last'.id, notes', TRUE) = Err("NoRecordFound")
             /\ entities_notes_delete(last'.id, notes', TRUE).err = "NoRecordFound"
        ELSE /\ last'.status = 404
             /\ last'.cause = "NoRecordFound"
             /\ notes' = notes

\* The id of a note that was deleted is the id of no note.
DeletedStayDeleted ==
    \A r \in reqs :
        (Done(r) /\ r.kind = "delete" /\ r.status = 204) =>
            load(r.id, notes, TRUE) = Err("NoRecordFound")

MissingIdEffect ==
    \A kind \in {"read_one", "update", "delete"} :
        (AuthorizedStep(kind) /\ ~\E m \in notes : m.id = last'.id) =>
            /\ last'.status = 404
            /\ last'.cause = "NoRecordFound"
            /\ last'.body = NoBody
            /\ notes' = notes

\* C21: read-one, authorized update and authorized delete addressed to an id
\* that is not in the notes store each return 404 (NoRecordFound) and leave
\* the notes store unchanged; update never creates a note.
C21_MissingIdIs404 == [][MissingIdEffect]_vars

\* A read-one, an authorized update with a non-empty text and an authorized
\* delete were each answered 404, and the store holds no note.
C21_Witness ==
    \E r1, r2, r3 \in reqs :
        /\ Done(r1) /\ r1.kind = "read_one" /\ r1.status = 404
        /\ Done(r2) /\ r2.kind = "update" /\ r2.handled /\ r2.status = 404
        /\ Done(r3) /\ r3.kind = "delete" /\ r3.handled /\ r3.status = 404
        /\ r2.text # ""
        /\ notes = {}

\* C22: for every run of a db_test whose body returned and whose teardown
\* has run, the database that setup created for it is gone; so when every
\* run has returned, no test-specific database remains.
C22_TeardownDropsDatabase ==
    /\ \A i \in DOMAIN tests :
           tests[i].pc = "returned" => tests[i].db \notin databases
    /\ (tests # NoTests /\ \A i \in DOMAIN tests : tests[i].pc = "returned")
           => databases = {}

\* The sources of load_config for environment e that define setting k, by
\* priority: 1 the ServerConfig defaults, 2 config/app.toml, 3 the file of
\* the environment, 4 the APP_ variables of the process environment.
DefinedAt(e, k) ==
    (IF k = "server.port" THEN {1} ELSE {})
    \cup (IF k \in jail.files[AppToml] THEN {2} ELSE {})
    \cup (IF k \in jail.files[env_config_file(e)] THEN {3} ELSE {})
    \cup (IF \E v \in Env_prefixed : Env_key(v) = k /\ jail.env[v] # Unset
          THEN {4} ELSE {})

\* The value source p gives setting k.
ValueAt(e, k, p) ==
    CASE p = 1 -> DefaultPort
      [] p = 2 -> AppToml
      [] p = 3 -> env_config_file(e)
      [] p = 4 -> jail.env[CHOOSE v \in Env_prefixed : Env_key(v) = k]

\* C23: load_config resolves every setting from the highest-priority source
\* that defines it (defaults, then config/app.toml, then the environment's
\* file, then APP_ environment variables), for each environment; it fails
\* only if some setting is defined by no source.
C23_HighestPriorityWins ==
    config.loaded =>
        LET e == config.environment
        IN  /\ config.result.ok <=> \A k \in Keys : DefinedAt(e, k) # {}
            /\ config.result.ok =>
                   \A k \in Keys :
                       LET top == CHOOSE p \in DefinedAt(e, k) :
                                      \A q \in DefinedAt(e, k) : q <= p
                       IN  config.result.config[k] = ValueAt(e, k, top)

\* A load for production: app_setting is in app.toml and in production.toml
\* and in no variable, and has the value of production.toml; server.port is
\* in both files and in a variable, and has the variable's value.
C23_Witness ==
    /\ config.loaded /\ config.environment = "production" /\ config.result.ok
    /\ jail.files[AppToml] = {"server.port", "app_setting"}
    /\ jail.files[env_config_file("production")] = {"server.port", "app_setting"}
    /\ jail.env["APP_APP_SETTING"] = Unset
    /\ jail.env["APP_SERVER__PORT"] = "env"
    /\ config.result.config["app_setting"] = env_config_file("production")
    /\ config.result.config["server.port"] = "env"

\* What a step does to the tokens handed out: a login answered 200 carries a
\* token for the name of the request whose expiry is the clock plus the
\* validity window; no other step hands out a token; the tokens handed out
\* before, and the answers that carry them, stay as they are.
IssueEffect ==
    /\ \A r \in reqs :
           (r.pc = "pending" /\ r \notin reqs' /\ last'.kind = "login"
               /\ last'.status = 200) =>
               \E q \in reqs' :
                   /\ Done(q) /\ q.kind = "login" /\ q.name = r.name /\ q.status = 200
                   /\ q.token.claims.name = r.name
                   /\ q.token.claims.exp = now + TokenTtl
                   /\ q.token.claims.exp > now
                   /\ IssuedTokens' = IssuedTokens \cup {q.token}
    /\ IssuedTokens' # IssuedTokens =>
           (AnsweringStep /\ last'.kind = "login" /\ last'.status = 200)
    /\ IssuedTokens \subseteq IssuedTokens'
    /\ \A r \in reqs : Done(r) => r \in reqs'

\* C24: every token issued by get_jwt carries the expiry issuance time plus
\* two minutes, strictly after issuance and the same window for every user,
\* and no operation extends or refreshes the expiry of an issued token.
C24_FixedWindowNoRefresh == [][IssueEffect]_vars

\* Two logins of the same user were answered 200 at different times: the
\* first token still has its expiry, the second expires a clock step later.
C24_Witness ==
    \E r1, r2 \in reqs :
        /\ Done(r1) /\ r1.kind = "login" /\ r1.status = 200
        /\ Done(r2) /\ r2.kind = "login" /\ r2.status = 200
        /\ r1.name = r2.name
        /\ r1.token.claims.exp = TokenTtl
        /\ r2.token.claims.exp = TickStep + TokenTtl
        /\ now = MaxTicks * TickStep

\* Request r is a login with the name of a user that was in the store when r
\* was answered, the lookup having returned the row, and verify either fails
\* on the stored hash (a malformed digest) or reports a mismatch.
FailedVerification(r) ==
    /\ Done(r)
    /\ r.kind = "login"
    /\ r.pass # Absent
    /\ r.cause # "db_unavailable"
    /\ \E u \in RowsSeenBy(r) :
           LET v == bcrypt_verify(r.pass, u.pass)
           IN  ~v.ok \/ ~v.value

\* C25: password verification never surfaces an error: a login against an
\* existing user whose stored hash is malformed or does not match is a
\* failed verification, answered 401 with the body of a bad password and
\* without a token, not 500.
C25_VerifyErrorIs401 ==
    \A r \in reqs :
        FailedVerification(r) =>
            /\ r.status = 401
            /\ r.token = NoToken
            /\ JsonBody(r.status, r.token, r.cause) = JsonBody(401, NoToken, "bad_password")

\* Two logins were answered 401: one against a row with a malformed hash,
\* one against a row with a digest of another password.
C25_Witness ==
    \E r1, r2 \in reqs :
        /\ FailedVerification(r1) /\ r1.status = 401
        /\ \E u \in RowsSeenBy(r1) : u.pass = MalformedHash
        /\ FailedVerification(r2) /\ r2.status = 401
        /\ \E u \in RowsSeenBy(r2) : bcrypt_verify(r2.pass, u.pass) = [ok |-> TRUE, value |-> FALSE]

\* The rows of the users table that WHERE token = $1 selects.
RowsWithToken(token) == {u \in users : u.token = token}

\* C26: after any sequence of registrations every row created through
\* insert_user holds the same fixed literal "random_text" in its token
\* column, whatever the name and the password; so load_with_token on that
\* literal returns a user as soon as one is registered, selects every row of
\* the table, and gives one answer for the tokens of any two users.
C26_TokenIsFixedLiteral ==
    /\ \A u \in users : u.token = StoredTokenLiteral /\ u.token = "random_text"
    /\ RowsWithToken(StoredTokenLiteral) = users
    /\ LET res == load_with_token(StoredTokenLiteral, users, TRUE)
       IN  /\ res.ok
           /\ users # {} => (res.value.some /\ res.value.value \in users)
           /\ users = {} => res.value = None
    /\ \A u, v \in users :
           load_with_token(u.token, users, TRUE) = load_with_token(v.token, users, TRUE)

\* Two users are registered under different names with different passwords,
\* and the lookup by the literal returns one of them.
C26_Witness ==
    \E u, v \in users :
        /\ u.name # v.name
        /\ u.pass.pw # v.pass.pw
        /\ \E r \in reqs : Done(r) /\ r.kind = "register" /\ r.name = u.name /\ r.status = 200
        /\ \E r \in reqs : Done(r) /\ r.kind = "register" /\ r.name = v.name /\ r.status = 200
        /\ load_with_token(StoredTokenLiteral, users, TRUE).value.value \in {u, v}

====
